---- MODULE Spec2Model ----
(***************************************************************************)
(* Memory Scramble board (Board in board.ts): cell grid, per-cell control, *)
(* per-cell FIFO queues of suspended first-card flips, per-player turn     *)
(* state, board watchers and the asynchronous card map.                    *)
(*                                                                         *)
(* One action is one uninterrupted run of JavaScript: a call of flipCard   *)
(* up to its return, throw or await; the continuation of a flipCard whose  *)
(* await was resolved; a call of watch; a call of mapCards; the            *)
(* continuation of one mapCards task; the continuation of mapCards after   *)
(* Promise.all.                                                            *)
(***************************************************************************)
EXTENDS Integers, Sequences, FiniteSets, TLC

VARIABLES rows, cols, cards, faceUp, control, playerState, waiting, ready,
          watchers, maps, last, steps

vars == <<rows, cols, cards, faceUp, control, playerState, waiting, ready,
          watchers, maps, last, steps>>

(* ------------------------------ bounds -------------------------------- *)

\* Longest run of operations explored from the test board, with every
\* operation of the board.
MaxSteps == 6

\* Longest run of flips explored on the one-row board.
MaxFlips == 11

\* Longest run of operations explored on the one-row board, with every
\* operation of the board.
MaxMapSteps == 7

\* Longest run of flips explored from a board whose arrays were written
\* through getCards, getFaceUp and getControl.
MaxRepFlips == 2

\* Longest wait queue of one cell.
MaxQueue == 2

\* The calls and resumptions of flipCard on the board of equal cards.
MaxSameFlips == 11

Null == "null"

Players == {"p1", "p2"}
Observers == {"w1", "w2"}
MapIds == {"m1"}

Cells == (0 .. rows - 1) \X (0 .. cols - 1)

\* Coordinates a caller may pass: every cell, and one position outside the
\* board for each of the four comparisons of the coordinate validation.
Coords == Cells \cup {<<-1, 0>>, <<rows, 0>>, <<0, -1>>, <<0, cols>>}

\* The functions f handed to mapCards.
MapFns == {"swap", "toA"}

ApplyFn(f, card) ==
    IF f = "swap" THEN (IF card = "A" THEN "B" ELSE "A") ELSE "A"

(* --------------------------- player state ----------------------------- *)

\* `{}`: the state of a player that has not flipped yet.  An optional
\* field is a sequence: <<>> when undefined.
EmptyState == [first |-> <<>>, second |-> <<>>, lastMatch |-> <<>>, lastMismatch |-> <<>>]

StateOf(ps, player) == IF player \in DOMAIN ps THEN ps[player] ELSE EmptyState

Pick(cell, card) == [row |-> cell[1], col |-> cell[2], card |-> card]

PosOf(pick) == <<pick.row, pick.col>>

(* ------------------------------ checkRep ------------------------------ *)

CheckRep(cs, fu, ctl) ==
    \A cell \in Cells :
        /\ ~(cs[cell] = Null /\ fu[cell])
        /\ ~(cs[cell] = Null /\ ctl[cell] # Null)

InBounds(row, col) == ~(row < 0 \/ row >= rows \/ col < 0 \/ col >= cols)

(* ---------------- the state an operation works on --------------------- *)

\* S bundles the board fields while one operation runs; base is the length
\* of the queue of woken flips when the operation started, woke the set of
\* watchers it resolved, notes the number of notifyWatchers calls.
Bundle(rdy) ==
    [cards |-> cards, faceUp |-> faceUp, control |-> control, ps |-> playerState,
     waiting |-> waiting, ready |-> rdy, watchers |-> watchers,
     base |-> Len(rdy), woke |-> {}, notes |-> 0, flippedDown |-> FALSE,
     res |-> "ok"]

\* NotifyWatchers resolving the first watcher only.
NotifyFirst(S) ==
    IF S.watchers = <<>> THEN [S EXCEPT !.notes = S.notes + 1]
    ELSE [S EXCEPT !.woke = S.woke \cup {Head(S.watchers)},
                   !.watchers = Tail(S.watchers),
                   !.notes = S.notes + 1]

NotifyWatchers(S) ==
    [S EXCEPT !.woke = S.woke \cup {S.watchers[i] : i \in 1 .. Len(S.watchers)},
              !.watchers = <<>>,
              !.notes = S.notes + 1]

\* ReleaseControl waking every flip of the queue.
ReleaseAll(S, cell) ==
    LET queue == S.waiting[cell] IN
    [S EXCEPT !.waiting[cell] = <<>>,
              !.ready = S.ready \o [i \in 1 .. Len(queue) |->
                            [player |-> queue[i], cell |-> cell,
                             chained |-> Len(S.ready) + i - 1 > S.base]]]

\* ReleaseControl waking the flip that joined the queue last.
ReleaseLast(S, cell) ==
    LET queue == S.waiting[cell] IN
    IF Len(queue) > 0
    THEN [S EXCEPT !.waiting[cell] = SubSeq(queue, 1, Len(queue) - 1),
                   !.ready = Append(S.ready,
                       [player |-> queue[Len(queue)], cell |-> cell,
                        chained |-> Len(S.ready) > S.base])]
    ELSE S

ReleaseControl(S, cell) ==
    LET queue == S.waiting[cell] IN
    IF Len(queue) > 0
    THEN [S EXCEPT !.waiting[cell] = Tail(queue),
                   !.ready = Append(S.ready,
                       [player |-> Head(queue), cell |-> cell,
                        chained |-> Len(S.ready) > S.base])]
    ELSE S

SetState(S, player, st) ==
    [S EXCEPT !.ps = (player :> st) @@ S.ps]

Fail(S, msg) == [S EXCEPT !.res = msg]

(* --------------------- flipCard: rules 3A and 3B ---------------------- *)

\* Statement sequencing: the state S0 the statements so far produced is
\* computed once and the statements that follow, Op, run on it.
Then(S0, Op(_)) == CHOOSE T \in {Op(S) : S \in {S0}} : TRUE

RECURSIVE RemoveMatched(_, _)
\* The loop of rule 3A over state.lastMatch.
RemoveMatched(S, poss) ==
    IF poss = <<>> THEN S
    ELSE LET pos == Head(poss) IN
         IF S.cards[pos] # Null
         THEN Then(ReleaseControl([S EXCEPT !.faceUp[pos] = FALSE,
                                            !.control[pos] = Null,
                                            !.cards[pos] = Null], pos),
                   LAMBDA T : RemoveMatched(T, Tail(poss)))
         ELSE RemoveMatched(S, Tail(poss))

\* Rule3A without the call of notifyWatchers.
Rule3AQuiet(S, player) ==
    LET state == S.ps[player] IN
    IF state.lastMatch # <<>>
    THEN Then(RemoveMatched(S, state.lastMatch),
              LAMBDA T : SetState(T, player, [state EXCEPT !.lastMatch = <<>>]))
    ELSE S

Rule3A(S, player) ==
    LET state == S.ps[player] IN
    IF state.lastMatch # <<>>
    THEN Then(RemoveMatched(S, state.lastMatch),
              LAMBDA T : NotifyWatchers(
                             SetState(T, player, [state EXCEPT !.lastMatch = <<>>])))
    ELSE S

RECURSIVE FlipDownControlled(_, _)
\* FlipDown without the test for a controller.
FlipDownControlled(S, poss) ==
    IF poss = <<>> THEN S
    ELSE LET pos == Head(poss) IN
         IF S.cards[pos] # Null /\ S.faceUp[pos]
         THEN FlipDownControlled([S EXCEPT !.faceUp[pos] = FALSE,
                                            !.flippedDown = TRUE], Tail(poss))
         ELSE FlipDownControlled(S, Tail(poss))

RECURSIVE FlipDown(_, _)
\* The loop of rule 3B over state.lastMismatch.
FlipDown(S, poss) ==
    IF poss = <<>> THEN S
    ELSE LET pos == Head(poss)
             exists == S.cards[pos] # Null
             noController == S.control[pos] = Null
             isUp == S.faceUp[pos]
         IN  IF exists /\ noController /\ isUp
             THEN FlipDown([S EXCEPT !.faceUp[pos] = FALSE,
                                     !.flippedDown = TRUE], Tail(poss))
             ELSE FlipDown(S, Tail(poss))

\* Rule3B leaving state.lastMismatch set.
Rule3BKeeps(S, player) ==
    LET state == S.ps[player] IN
    IF state.lastMismatch # <<>>
    THEN Then(FlipDown([S EXCEPT !.flippedDown = FALSE], state.lastMismatch),
              LAMBDA U : IF U.flippedDown THEN NotifyWatchers(U) ELSE U)
    ELSE S

Rule3B(S, player) ==
    LET state == S.ps[player] IN
    IF state.lastMismatch # <<>>
    THEN Then(FlipDown([S EXCEPT !.flippedDown = FALSE], state.lastMismatch),
              LAMBDA T : Then(SetState(T, player, [state EXCEPT !.lastMismatch = <<>>]),
                              LAMBDA U : IF U.flippedDown THEN NotifyWatchers(U) ELSE U))
    ELSE S

Cleanup(S, player) ==
    LET state == S.ps[player] IN
    IF state.first = <<>> /\ state.second = <<>>
    THEN Then(Rule3A(S, player), LAMBDA T : Rule3B(T, player))
    ELSE S

(* ------------------------ flipCard: rule 1-D -------------------------- *)

\* MustWait never suspending a flip.
MustWaitNever(S, player, cell) == FALSE

\* MustWait with flips also waiting while a call of mapCards is running.
MustWaitForMap(S, player, cell) ==
    LET state == S.ps[player] IN
    \/ \E m \in MapIds : maps[m].active
    \/ /\ state.first = <<>>
       /\ state.second = <<>>
       /\ S.faceUp[cell]
       /\ S.control[cell] # Null
       /\ S.control[cell] # player

\* MustWait without the test that the player holds no card.
WaitsHolding(S, player, cell) ==
    /\ S.faceUp[cell]
    /\ S.control[cell] # Null
    /\ S.control[cell] # player

MustWait(S, player, cell) ==
    LET state == S.ps[player] IN
    /\ state.first = <<>>
    /\ state.second = <<>>
    /\ S.faceUp[cell]
    /\ S.control[cell] # Null
    /\ S.control[cell] # player

Enqueue(S, player, cell) ==
    [S EXCEPT !.waiting[cell] = Append(S.waiting[cell], player),
              !.res = "suspended"]

(* --------------------- flipCard: first card --------------------------- *)

\* FirstCard taking the card from its controller before it fails.
FirstCardSteals(S, player, cell) ==
    IF S.cards[cell] = Null THEN Fail(S, "No card at that position")
    ELSE IF S.control[cell] # Null /\ S.control[cell] # player
    THEN Fail([S EXCEPT !.control[cell] = player], "Card controlled by another player")
    ELSE NotifyWatchers(
             SetState([S EXCEPT !.faceUp[cell] = TRUE, !.control[cell] = player],
                      player,
                      [S.ps[player] EXCEPT !.first = <<Pick(cell, S.cards[cell])>>]))

\* FirstCard without the test that the cell has a card.
FirstCardAny(S, player, cell) ==
    IF S.control[cell] # Null /\ S.control[cell] # player
    THEN Fail(S, "Card controlled by another player")
    ELSE NotifyWatchers(
             SetState([S EXCEPT !.faceUp[cell] = TRUE, !.control[cell] = player],
                      player,
                      [S.ps[player] EXCEPT !.first = <<Pick(cell, S.cards[cell])>>]))

FirstCard(S, player, cell) ==
    IF S.cards[cell] = Null THEN Fail(S, "No card at that position")
    ELSE IF S.control[cell] # Null /\ S.control[cell] # player
    THEN Fail(S, "Card controlled by another player")
    ELSE NotifyWatchers(
             SetState([S EXCEPT !.faceUp[cell] = TRUE, !.control[cell] = player],
                      player,
                      [S.ps[player] EXCEPT !.first = <<Pick(cell, S.cards[cell])>>]))

(* --------------------- flipCard: second card -------------------------- *)

\* Rules 2A and 2B: the first card is given up and becomes the mismatch
\* to turn down later.
LoseFirst(S, player, msg) ==
    LET state == S.ps[player]
        first == state.first[1]
    IN  Then(ReleaseControl([S EXCEPT !.control[PosOf(first)] = Null], PosOf(first)),
             LAMBDA T : Fail(NotifyWatchers(
                                 SetState(T, player,
                                          [state EXCEPT !.lastMismatch = <<PosOf(first)>>,
                                                        !.first = <<>>])),
                             msg))

\* Rules 2D and 2E, after rule 2C recorded state.second.
Compare(S, player) ==
    LET state == S.ps[player]
        first == state.first[1]
        second == state.second[1]
    IN  IF first.card = second.card
        THEN SetState(S, player,
                      [state EXCEPT !.lastMatch = <<PosOf(first), PosOf(second)>>])
        ELSE Then(ReleaseControl([S EXCEPT !.control[PosOf(first)] = Null,
                                           !.control[PosOf(second)] = Null],
                                 PosOf(first)),
                  LAMBDA T : Then(ReleaseControl(T, PosOf(second)),
                      LAMBDA U : SetState(U, player,
                          [state EXCEPT !.lastMismatch = <<PosOf(first), PosOf(second)>>])))

\* Rule 2C.
FlipSecond(S, player, cell) ==
    NotifyWatchers(
        SetState([S EXCEPT !.faceUp[cell] = TRUE, !.control[cell] = player],
                 player,
                 [S.ps[player] EXCEPT !.second = <<Pick(cell, S.cards[cell])>>]))

\* SecondCard without rule 2B.
SecondCardTakes(S, player, cell) ==
    LET first == S.ps[player].first[1]
    IN  IF cell = PosOf(first) THEN S
        ELSE IF S.cards[cell] = Null
        THEN LoseFirst(S, player, "No card at that position")
        ELSE Then(FlipSecond(S, player, cell),
                  LAMBDA T : Then(Compare(T, player),
                      LAMBDA U : NotifyWatchers(
                          SetState(U, player,
                                   [U.ps[player] EXCEPT !.first = <<>>, !.second = <<>>]))))

\* SecondCard leaving state.second set after the comparison.
SecondCardKeeps(S, player, cell) ==
    LET first == S.ps[player].first[1]
    IN  IF cell = PosOf(first) THEN S
        ELSE IF S.cards[cell] = Null
        THEN LoseFirst(S, player, "No card at that position")
        ELSE IF S.control[cell] # Null /\ S.control[cell] # player
        THEN LoseFirst(S, player, "Card already controlled")
        ELSE Then(FlipSecond(S, player, cell),
                  LAMBDA T : NotifyWatchers(Compare(T, player)))

\* SecondCard without the test for a second click on the first card.
SecondCardAgain(S, player, cell) ==
    IF S.cards[cell] = Null
    THEN LoseFirst(S, player, "No card at that position")
    ELSE IF S.control[cell] # Null /\ S.control[cell] # player
    THEN LoseFirst(S, player, "Card already controlled")
    ELSE Then(FlipSecond(S, player, cell),
              LAMBDA T : Then(Compare(T, player),
                  LAMBDA U : NotifyWatchers(
                      SetState(U, player,
                               [U.ps[player] EXCEPT !.first = <<>>, !.second = <<>>]))))

SecondCard(S, player, cell) ==
    LET first == S.ps[player].first[1]
    IN  IF cell = PosOf(first) THEN S
        ELSE IF S.cards[cell] = Null
        THEN LoseFirst(S, player, "No card at that position")
        ELSE IF S.control[cell] # Null /\ S.control[cell] # player
        THEN LoseFirst(S, player, "Card already controlled")
        ELSE Then(FlipSecond(S, player, cell),
                  LAMBDA T : Then(Compare(T, player),
                      LAMBDA U : NotifyWatchers(
                          SetState(U, player,
                                   [U.ps[player] EXCEPT !.first = <<>>, !.second = <<>>]))))

\* flipCard from "=== FIRST card ===" on: the part a woken flip also runs.
Resolve(S, player, cell) ==
    LET state == S.ps[player] IN
    IF state.first = <<>> THEN FirstCard(S, player, cell)
    ELSE IF state.second = <<>> THEN SecondCard(S, player, cell)
    ELSE Fail(S, "Player cannot flip a third card without completing a pair")

\* Rules 3A/3B, then rule 1-D or the card rules.
Play(S, player, cell) ==
    Then(Cleanup(S, player),
         LAMBDA T : IF MustWait(T, player, cell)
                    THEN Enqueue(T, player, cell)
                    ELSE Resolve(T, player, cell))

\* FlipCardBody validating the coordinates after rules 3A/3B.
FlipCardBodyLate(S, player, row, col) ==
    IF ~CheckRep(S.cards, S.faceUp, S.control) THEN Fail(S, "checkRep failed")
    ELSE Then(IF player \in DOMAIN S.ps THEN S ELSE SetState(S, player, EmptyState),
              LAMBDA T : Then(Cleanup(T, player),
                  LAMBDA U : IF ~InBounds(row, col) THEN Fail(U, "Invalid coordinates")
                             ELSE Play(U, player, <<row, col>>)))

\* flipCard from its call to its return, throw or await.
FlipCardBody(S, player, row, col) ==
    IF ~CheckRep(S.cards, S.faceUp, S.control) THEN Fail(S, "checkRep failed")
    ELSE IF ~InBounds(row, col) THEN Fail(S, "Invalid coordinates")
    ELSE Then(IF player \in DOMAIN S.ps THEN S ELSE SetState(S, player, EmptyState),
              LAMBDA T : Play(T, player, <<row, col>>))

(* ------------------------------ actions ------------------------------- *)

\* The new state of every board field after an operation that ran on S.
Commit(S, op, player, cell) ==
    /\ cards' = S.cards
    /\ faceUp' = S.faceUp
    /\ control' = S.control
    /\ playerState' = S.ps
    /\ waiting' = S.waiting
    /\ ready' = S.ready
    /\ watchers' = S.watchers
    /\ last' = [op |-> op, player |-> player, cell |-> cell, res |-> S.res,
                woke |-> S.woke, notes |-> S.notes]
    /\ UNCHANGED <<rows, cols>>

\* A call can start only when no woken flip is owed the next turn: a flip
\* woken by the same operation as the one that just resumed runs right
\* after it.
CallAllowed ==
    IF ready = <<>> THEN TRUE ELSE ~Head(ready).chained

FlipCard(player, row, col) ==
    /\ CallAllowed
    /\ \E S \in {FlipCardBody(Bundle(ready), player, row, col)} :
       /\ \A cell \in Cells : Len(S.waiting[cell]) <= MaxQueue
       /\ Commit(S, "flip", player, <<row, col>>)
    /\ UNCHANGED maps

\* The continuation of a flipCard after `await deferred.promise`.
ResumeFlip ==
    /\ ready # <<>>
    /\ \E S \in {Then(Bundle(Tail(ready)),
                         LAMBDA T : Resolve(T, Head(ready).player, Head(ready).cell))} :
          Commit(S, "resume", Head(ready).player, Head(ready).cell)
    /\ UNCHANGED maps

Watch(o) ==
    /\ CallAllowed
    /\ \A i \in 1 .. Len(watchers) : watchers[i] # o
    /\ LET S == Bundle(ready) IN
       Commit([S EXCEPT !.watchers = Append(watchers, o), !.res = "suspended"],
              "watch", o, <<0, 0>>)
    /\ UNCHANGED maps

\* No call of mapCards is running: no f, no task.
NoMap == [active |-> FALSE, f |-> Null, tasks |-> {}, done |-> {}]

\* mapCards up to `await Promise.all(tasks)`: f is called on every card
\* present and one task per card awaits the result.  tasks are the tasks
\* still awaiting, done those that ran.
MapCards(m, f) ==
    /\ CallAllowed
    /\ ~maps[m].active
    /\ maps' = [maps EXCEPT ![m] =
                   [active |-> TRUE,
                    f |-> f,
                    tasks |-> {[cell |-> cell, card |-> cards[cell],
                                newCard |-> ApplyFn(f, cards[cell])] :
                                  cell \in {c \in Cells : cards[c] # Null}},
                    done |-> {}]]
    /\ Commit([Bundle(ready) EXCEPT !.res = "suspended"], "map", m, <<0, 0>>)

\* WriteCard writing nothing.
WriteCardNever(S, cell, newCard) == S

\* WriteCard without the test that the card still exists.
WriteCardAlways(S, cell, newCard) == [S EXCEPT !.cards[cell] = newCard]

\* The write of a task: only replace if the card still exists.
WriteCard(S, cell, newCard) ==
    IF S.cards[cell] # Null THEN [S EXCEPT !.cards[cell] = newCard] ELSE S

\* One task of mapCards after `await f(card)`.
MapTask(m, t) ==
    /\ CallAllowed
    /\ maps[m].active
    /\ t \in maps[m].tasks
    /\ maps' = [maps EXCEPT ![m].tasks = @ \ {t}, ![m].done = @ \cup {t}]
    /\ Commit(WriteCard(Bundle(ready), t.cell, t.newCard), "task", m, t.cell)

\* mapCards after `await Promise.all(tasks)`.
MapDone(m) ==
    /\ CallAllowed
    /\ maps[m].active
    /\ maps[m].tasks = {}
    /\ maps' = [maps EXCEPT ![m] = NoMap]
    /\ Commit(NotifyWatchers(Bundle(ready)), "mapped", m, <<0, 0>>)

\* mapCards after `await Promise.all(tasks)` in the second copy of the
\* class: it returns without calling notifyWatchers.
MapDoneSecondCopy(m) ==
    /\ CallAllowed
    /\ maps[m].active
    /\ maps[m].tasks = {}
    /\ maps' = [maps EXCEPT ![m] = NoMap]
    /\ Commit(Bundle(ready), "mapped", m, <<0, 0>>)

\* new Board(rows, cols, cards): every card face down, nobody in control.
Board(r, c, cs) ==
    /\ rows = r
    /\ cols = c
    /\ cards = cs
    /\ faceUp = [cell \in DOMAIN cs |-> FALSE]
    /\ control = [cell \in DOMAIN cs |-> Null]
    /\ playerState = <<>>
    /\ waiting = [cell \in DOMAIN cs |-> <<>>]
    /\ ready = <<>>
    /\ watchers = <<>>
    /\ maps = [m \in MapIds |-> NoMap]
    /\ last = [op |-> "new", player |-> Null, cell |-> <<0, 0>>, res |-> "ok",
               woke |-> {}, notes |-> 0]
    /\ steps = 0

\* The board of the test suite: A A / B B.
Init ==
    Board(2, 2, [cell \in (0 .. 1) \X (0 .. 1) |-> IF cell[1] = 0 THEN "A" ELSE "B"])

\* A one-row board: A A B.
InitRow ==
    Board(1, 3, [cell \in (0 .. 0) \X (0 .. 2) |-> IF cell[2] < 2 THEN "A" ELSE "B"])

\* A flip of the player is suspended in a queue or woken and yet to run.
InFlight(player) ==
    \/ \E cell \in Cells : \E i \in 1 .. Len(waiting[cell]) : waiting[cell][i] = player
    \/ \E i \in 1 .. Len(ready) : ready[i].player = player

\* Every operation of the board, in any order, on the board of the tests.
Next ==
    /\ steps < MaxSteps
    /\ steps' = steps + 1
    /\ \/ \E player \in Players, xy \in Coords : FlipCard(player, xy[1], xy[2])
       \/ ResumeFlip
       \/ \E o \in Observers : Watch(o)
       \/ \E m \in MapIds, f \in MapFns : MapCards(m, f)
       \/ \E m \in MapIds : \E t \in maps[m].tasks : MapTask(m, t)
       \/ \E m \in MapIds : MapDone(m)
       \/ \E m \in MapIds : MapDoneSecondCopy(m)

Spec == Init /\ [][Next]_vars

\* Flips, watchers and a map of the one-row board, in any order.
NextMaps ==
    /\ steps < MaxMapSteps
    /\ steps' = steps + 1
    /\ \/ \E player \in Players, xy \in Cells : FlipCard(player, xy[1], xy[2])
       \/ ResumeFlip
       \/ \E o \in Observers : Watch(o)
       \/ \E m \in MapIds, f \in MapFns : MapCards(m, f)
       \/ \E m \in MapIds : \E t \in maps[m].tasks : MapTask(m, t)
       \/ \E m \in MapIds : MapDone(m)
       \/ \E m \in MapIds : MapDoneSecondCopy(m)

SpecMaps == InitRow /\ [][NextMaps]_vars

\* A call of mapCards is running.
Mapping == \E m \in MapIds : maps[m].active

\* As NextMaps, with nothing else running between a call of mapCards and
\* its return.
NextMapAlone ==
    /\ steps < MaxMapSteps
    /\ steps' = steps + 1
    /\ \/ ~Mapping /\ \E player \in Players, xy \in Cells : FlipCard(player, xy[1], xy[2])
       \/ ~Mapping /\ ResumeFlip
       \/ ~Mapping /\ \E o \in Observers : Watch(o)
       \/ \E m \in MapIds, f \in MapFns : MapCards(m, f)
       \/ \E m \in MapIds : \E t \in maps[m].tasks : MapTask(m, t)
       \/ \E m \in MapIds : MapDone(m)
       \/ \E m \in MapIds : MapDoneSecondCopy(m)

SpecMapAlone == InitRow /\ [][NextMapAlone]_vars

\* A 1x2 board whose arrays were written through getCards, getFaceUp and
\* getControl: any card or none, any face, any controller in each cell.
InitRep ==
    /\ rows = 1
    /\ cols = 2
    /\ cards \in [(0 .. 0) \X (0 .. 1) -> {Null, "A"}]
    /\ faceUp \in [(0 .. 0) \X (0 .. 1) -> BOOLEAN]
    /\ control \in [(0 .. 0) \X (0 .. 1) -> {Null} \cup Players]
    /\ playerState = <<>>
    /\ waiting = [cell \in (0 .. 0) \X (0 .. 1) |-> <<>>]
    /\ ready = <<>>
    /\ watchers = <<>>
    /\ maps = [m \in MapIds |-> NoMap]
    /\ last = [op |-> "new", player |-> Null, cell |-> <<0, 0>>, res |-> "ok",
               woke |-> {}, notes |-> 0]
    /\ steps = 0

\* Calls of flipCard on such a board.
NextRep ==
    /\ steps < MaxRepFlips
    /\ steps' = steps + 1
    /\ \E player \in Players, xy \in Cells : FlipCard(player, xy[1], xy[2])

SpecRep == InitRep /\ [][NextRep]_vars

\* Flips of two players in any order, a player's flips overlapping too.
NextFlips ==
    /\ steps < MaxFlips
    /\ steps' = steps + 1
    /\ \/ \E player \in Players, xy \in Cells : FlipCard(player, xy[1], xy[2])
       \/ ResumeFlip

SpecFlips == InitRow /\ [][NextFlips]_vars

\* A one-row board of three equal cards: A A A.
InitSame ==
    Board(1, 3, [cell \in (0 .. 0) \X (0 .. 2) |-> "A"])

\* Flips of two players in any order on the board of equal cards.
NextSame ==
    /\ steps < MaxSameFlips
    /\ steps' = steps + 1
    /\ \/ \E player \in Players, xy \in Cells : FlipCard(player, xy[1], xy[2])
       \/ ResumeFlip

SpecSame == InitSame /\ [][NextSame]_vars

\* Three players taking turns for ever: a player calls flipCard when none
\* of its flips is in flight, and a woken flip runs before the next call.
TurnPlayers == {"p1", "p2", "p3"}

Turn(player) ==
    /\ ~InFlight(player)
    /\ ready = <<>>
    /\ \E xy \in Cells : FlipCard(player, xy[1], xy[2])
    /\ UNCHANGED steps

\* A turn that is not a second click on the player's own first card.
Move(player) ==
    /\ Turn(player)
    /\ LET state == StateOf(playerState, player) IN
       IF state.first = <<>> THEN TRUE ELSE last'.cell # PosOf(state.first[1])

Resumed == ResumeFlip /\ UNCHANGED steps

NextTurns ==
    \/ \E player \in TurnPlayers : Turn(player)
    \/ Resumed

\* Every player that can call flipCard keeps flipping cards other than the
\* one it holds, and every woken flip runs.
SpecTurns ==
    /\ InitRow
    /\ [][NextTurns]_vars
    /\ WF_vars(Resumed)
    /\ \A player \in TurnPlayers : SF_vars(Move(player))

(* --------------------------- toDisplayString -------------------------- *)

\* The players a board is displayed for: those that flip and one that
\* never did.
Viewers == Players \cup {"p3"}

\* DisplayLine showing every controlled card as the viewer's own.
DisplayLineOwned(player, cell) ==
    LET card == cards[cell] IN
    IF card = Null THEN "none\n"
    ELSE IF ~faceUp[cell] THEN "down\n"
    ELSE IF control[cell] # Null THEN "my " \o card \o "\n"
    ELSE "up " \o card \o "\n"

\* The line toDisplayString appends for one cell.
DisplayLine(player, cell) ==
    LET card == cards[cell] IN
    IF card = Null THEN "none\n"
    ELSE IF ~faceUp[cell] THEN "down\n"
    ELSE IF control[cell] = player THEN "my " \o card \o "\n"
    ELSE "up " \o card \o "\n"

RECURSIVE DisplayFrom(_, _, _)
\* The two loops of toDisplayString, from row r and column c on.
DisplayFrom(player, r, c) ==
    IF r >= rows THEN ""
    ELSE IF c >= cols THEN DisplayFrom(player, r + 1, 0)
    ELSE DisplayLine(player, <<r, c>>) \o DisplayFrom(player, r, c + 1)

ToDisplayString(player) ==
    ToString(rows) \o "x" \o ToString(cols) \o "\n" \o DisplayFrom(player, 0, 0)

(* ------------------------- reading the state -------------------------- *)

Session(player) == StateOf(playerState, player)

Holds(player) == Session(player).first # <<>>

Controlled(player) == {cell \in Cells : control[cell] = player}

Queued(player) == \E cell \in Cells : \E i \in 1 .. Len(waiting[cell]) : waiting[cell][i] = player

\* The step is a call flipCard(player, cell[1], cell[2]).
Called(player, cell) ==
    /\ last'.op = "flip"
    /\ last'.player = player
    /\ last'.cell = cell

\* The flips woken by the step, in the order they were woken.
Woken ==
    LET old == IF last'.op = "resume" THEN Tail(ready) ELSE ready
    IN  SubSeq(ready', Len(old) + 1, Len(ready'))

WokenFrom(cell) == \E i \in 1 .. Len(Woken) : Woken[i].cell = cell

(* ------------------------------- C1 ----------------------------------- *)

\* C1: after every operation of any interleaving of flipCard and mapCards,
\* every cell satisfies the three cell invariants: no card implies face
\* down, no card implies no controller, a controller implies a card that
\* is face up.
CellInvariants ==
    \A cell \in Cells :
        /\ cards[cell] = Null => ~faceUp[cell]
        /\ cards[cell] = Null => control[cell] = Null
        /\ control[cell] # Null => cards[cell] # Null /\ faceUp[cell]

\* A board with a removed cell, a controlled cell and a map task that ran.
CellInvariantsWitness ==
    /\ \E cell \in Cells : cards[cell] = Null
    /\ \E cell \in Cells : control[cell] # Null
    /\ last.op = "task"

(* ------------------------------- C2 ----------------------------------- *)

\* C2: the controller of a cell only changes from nobody to a player or
\* from a player to nobody; no operation hands a cell from one player
\* directly to another.
ControlHandover ==
    [][\A cell \in Cells :
          control'[cell] # control[cell] =>
              control[cell] = Null \/ control'[cell] = Null]_vars

\* A woken flip found its cell taken again and was refused.
ControlHandoverWitness ==
    /\ last.res = "Card controlled by another player"
    /\ control[last.cell] \notin {Null, last.player}

(* ------------------------------- C3 ----------------------------------- *)

\* C3: a call of flipCard by a player holding a first card, on another
\* cell that a different player controls, fails at once with "Card already
\* controlled": it joins no wait queue, the first cell loses its
\* controller and the head of its queue is woken, the first card becomes
\* the pending mismatch and the player holds no card.
SecondNeverWaits ==
    [][\A player \in Players : \A cell \in Cells :
          ( /\ Holds(player)
            /\ cell # PosOf(Session(player).first[1])
            /\ control[cell] \notin {Null, player}
            /\ Called(player, cell) )
          => LET fp == PosOf(Session(player).first[1]) IN
             /\ last'.res = "Card already controlled"
             /\ \A c \in Cells : c # fp => waiting'[c] = waiting[c]
             /\ control'[fp] = Null
             /\ IF waiting[fp] = <<>>
                THEN waiting'[fp] = <<>> /\ ready' = ready
                ELSE /\ waiting'[fp] = Tail(waiting[fp])
                     /\ Len(ready') = Len(ready) + 1
                     /\ ready'[Len(ready')].player = Head(waiting[fp])
                     /\ ready'[Len(ready')].cell = fp
             /\ playerState'[player].lastMismatch = <<fp>>
             /\ playerState'[player].first = <<>>
             /\ playerState'[player].second = <<>>]_vars

\* The call was refused and it woke a flip waiting for the first card.
SecondNeverWaitsWitness ==
    /\ last.op = "flip"
    /\ last.res = "Card already controlled"
    /\ ready # <<>>
    /\ Session(last.player).lastMismatch = <<ready[Len(ready)].cell>>

(* ------------------------------- C4 ----------------------------------- *)

\* C4: a player with a flip suspended in a wait queue controls no cell and
\* has no pending match or mismatch.
WaiterHoldsNothing ==
    \A player \in Players :
        Queued(player) =>
            /\ Controlled(player) = {}
            /\ Session(player).lastMatch = <<>>
            /\ Session(player).lastMismatch = <<>>

(* ------------------------------- C5 ----------------------------------- *)

\* C5: a wait queue changes only by a flip joining at its end or by its
\* head being woken; the flips woken by a step are the heads of the queues
\* of the cells released, so flips waiting for one cell are woken in their
\* order of arrival and a release of another cell wakes none of them.
FifoWake ==
    [][/\ \A cell \in Cells :
            \/ waiting'[cell] = waiting[cell] /\ ~WokenFrom(cell)
            \/ /\ Len(waiting'[cell]) = Len(waiting[cell]) + 1
               /\ SubSeq(waiting'[cell], 1, Len(waiting[cell])) = waiting[cell]
               /\ ~WokenFrom(cell)
            \/ /\ waiting[cell] # <<>>
               /\ waiting'[cell] = Tail(waiting[cell])
               /\ \E i \in 1 .. Len(Woken) :
                     /\ Woken[i].cell = cell
                     /\ Woken[i].player = Head(waiting[cell])
                     /\ \A j \in 1 .. Len(Woken) : Woken[j].cell = cell => j = i
       /\ \A i \in 1 .. Len(ready') - Len(Woken) :
             ready'[i].player = (IF last'.op = "resume" THEN Tail(ready) ELSE ready)[i].player]_vars

\* The head of a queue of two different players was woken; the other
\* still waits.
FifoWakeWitness ==
    /\ ready # <<>>
    /\ LET w == ready[Len(ready)] IN
       /\ waiting[w.cell] # <<>>
       /\ waiting[w.cell][1] # w.player

(* ------------------------------- C6 ----------------------------------- *)

\* C6: a call of flipCard by a player holding no card, on a cell that is
\* face up and controlled by a different player, suspends at the end of
\* that cell's queue; and a flip stays queued as long as the controller of
\* its cell stays the same.
FirstWaits ==
    [][/\ \A player \in Players : \A cell \in Cells :
            ( /\ ~Holds(player)
              /\ faceUp[cell]
              /\ control[cell] \notin {Null, player}
              /\ Called(player, cell) )
            => /\ last'.res = "suspended"
               /\ waiting'[cell] = Append(waiting[cell], player)
       /\ \A cell \in Cells :
            (control[cell] # Null /\ control'[cell] = control[cell])
            => /\ Len(waiting'[cell]) >= Len(waiting[cell])
               /\ SubSeq(waiting'[cell], 1, Len(waiting[cell])) = waiting[cell]]_vars

(* ------------------------------- C8 ----------------------------------- *)

\* C8: the two cells of a player's pending match are present, face up and
\* controlled by that player, and the player's next call of flipCard
\* inside the board removes both (no card, face down, no controller)
\* before it resolves its own target, which therefore has no card when it
\* is one of the two.
MatchCommit ==
    [][\A player \in Players :
          LET pair == Session(player).lastMatch IN
          pair # <<>> =>
             /\ \A i \in 1 .. Len(pair) :
                   /\ cards[pair[i]] # Null
                   /\ faceUp[pair[i]]
                   /\ control[pair[i]] = player
             /\ \A cell \in Cells :
                   Called(player, cell) =>
                      /\ \A i \in 1 .. Len(pair) :
                            /\ cards'[pair[i]] = Null
                            /\ ~faceUp'[pair[i]]
                            /\ control'[pair[i]] = Null
                      /\ (\E i \in 1 .. Len(pair) : pair[i] = cell)
                            => last'.res = "No card at that position"]_vars

(* ------------------------------- C9 ----------------------------------- *)

\* C9: when a call of flipCard by a player holding a first card flips a
\* second cell that has a card differing from the first card and that no
\* other player controls, then afterwards both cells have a card, are face
\* up and have no controller, the heads of their queues are woken, both
\* positions are the player's pending mismatch and the player holds no
\* card.
Mismatch ==
    [][\A player \in Players : \A cell \in Cells :
          ( /\ Holds(player)
            /\ cell # PosOf(Session(player).first[1])
            /\ cards[cell] # Null
            /\ cards[cell] # Session(player).first[1].card
            /\ control[cell] \in {Null, player}
            /\ Called(player, cell) )
          => LET fp == PosOf(Session(player).first[1]) IN
             /\ last'.res = "ok"
             /\ \A c \in {fp, cell} :
                   /\ cards'[c] # Null
                   /\ faceUp'[c]
                   /\ control'[c] = Null
                   /\ waiting[c] # <<>> =>
                         /\ waiting'[c] = Tail(waiting[c])
                         /\ \E i \in 1 .. Len(Woken) :
                               Woken[i].cell = c /\ Woken[i].player = Head(waiting[c])
             /\ playerState'[player].lastMismatch = <<fp, cell>>
             /\ playerState'[player].first = <<>>
             /\ playerState'[player].second = <<>>]_vars

(* ------------------------------- C10 ---------------------------------- *)

\* The cells of a pending mismatch that rule 3B turns down: those with a
\* card, face up and without controller.
TurnsDown(player) ==
    LET pend == Session(player).lastMismatch IN
    {pend[i] : i \in {j \in 1 .. Len(pend) :
                        /\ cards[pend[j]] # Null
                        /\ faceUp[pend[j]]
                        /\ control[pend[j]] = Null}}

\* C10: a call of flipCard inside the board by a player holding no card
\* and with a pending mismatch turns face down exactly the pending cells
\* that have a card, are face up and have no controller, before the new
\* card is resolved; a pending cell another player controls stays face up
\* and controlled by that player.
MismatchCommit ==
    [][\A player \in Players : \A cell \in Cells :
          ( /\ ~Holds(player)
            /\ Session(player).lastMismatch # <<>>
            /\ Called(player, cell) )
          => LET pend == Session(player).lastMismatch IN
             \A i \in 1 .. Len(pend) :
                /\ pend[i] # cell =>
                      (faceUp'[pend[i]] <=> (faceUp[pend[i]] /\ pend[i] \notin TurnsDown(player)))
                /\ control[pend[i]] \notin {Null, player} =>
                      /\ faceUp'[pend[i]]
                      /\ control'[pend[i]] = control[pend[i]]
                /\ (pend[i] = cell /\ cell \in TurnsDown(player))
                      => last'.res = "ok" /\ last'.notes = 2]_vars

(* ------------------------------- C11 ---------------------------------- *)

\* C11: a cell whose card was removed never has a card again, whatever
\* flips and maps run afterwards; a map task whose f(card) was started
\* before the removal does not write its result into the cell.
NoResurrection ==
    [][\A cell \in Cells : cards[cell] = Null => cards'[cell] = Null]_vars

\* A map task ran for a cell that was removed after mapCards was called.
NoResurrectionWitness ==
    /\ last.op = "task"
    /\ cards[last.cell] = Null

(* ------------------------------- C12 ---------------------------------- *)

\* C12: a woken flip that finds its cell without card, removed by a rule
\* 3A while the flip was suspended, fails with "No card at that
\* position": it does not take control of the cell or turn it face up,
\* the cell stays without card, and the player holds no first and no
\* second card afterwards.
WokenOnRemoved ==
    [][(last'.op = "resume" /\ cards[last'.cell] = Null)
          => /\ last'.res = "No card at that position"
             /\ cards'[last'.cell] = Null
             /\ ~faceUp'[last'.cell]
             /\ control'[last'.cell] = Null
             /\ playerState'[last'.player].first = <<>>
             /\ playerState'[last'.player].second = <<>>]_vars

(* ------------------------------- C13 ---------------------------------- *)

\* C13: a call of flipCard with a row or column outside the board fails
\* with "Invalid coordinates" and changes nothing: cards, faces,
\* controllers, every player's state (a pending match or mismatch of the
\* caller is not carried out), wait queues, woken flips and watchers are
\* as before, and no watcher is resolved.
InvalidCoordinates ==
    [][\A player \in Players : \A xy \in Coords \ Cells :
          Called(player, xy)
          => /\ last'.res = "Invalid coordinates"
             /\ UNCHANGED <<cards, faceUp, control, playerState, waiting, ready, watchers>>
             /\ last'.woke = {}
             /\ last'.notes = 0]_vars

\* The call was refused while the caller had a match to remove and a
\* watcher was registered.
InvalidCoordinatesWitness ==
    /\ last.op = "flip"
    /\ last.res = "Invalid coordinates"
    /\ Session(last.player).lastMatch # <<>>
    /\ watchers # <<>>

(* ------------------------------- C14 ---------------------------------- *)

\* The cells rules 3A and 3B may change for the player: those of its
\* pending match and mismatch.
Pending(player) ==
    LET state == Session(player) IN
    {state.lastMatch[i] : i \in 1 .. Len(state.lastMatch)}
        \cup {state.lastMismatch[i] : i \in 1 .. Len(state.lastMismatch)}

\* C14: a call of flipCard by a player holding no card, on a cell without
\* card, fails with "No card at that position"; the cell stays without
\* card, face down and without controller, the player holds no card, and
\* nothing but the player's own rules 3A/3B changes anything: cells and
\* queues outside its pending match and mismatch are as before, and with
\* nothing pending the whole board, the queues and the watchers are.
NoCardFirst ==
    [][\A player \in Players : \A cell \in Cells :
          ( /\ ~Holds(player)
            /\ cards[cell] = Null
            /\ Called(player, cell) )
          => /\ last'.res = "No card at that position"
             /\ cards'[cell] = Null
             /\ ~faceUp'[cell]
             /\ control'[cell] = Null
             /\ playerState'[player].first = <<>>
             /\ playerState'[player].second = <<>>
             /\ \A q \in Players \ {player} : Session(q) = StateOf(playerState', q)
             /\ \A c \in Cells \ Pending(player) :
                   /\ cards'[c] = cards[c]
                   /\ faceUp'[c] = faceUp[c]
                   /\ control'[c] = control[c]
                   /\ waiting'[c] = waiting[c]
             /\ Pending(player) = {}
                   => /\ UNCHANGED <<waiting, ready, watchers>>
                      /\ StateOf(playerState', player) = Session(player)
                      /\ last'.notes = 0]_vars

\* The call failed on a removed cell with nothing pending, while another
\* flip waited in a queue.
NoCardFirstWitness ==
    /\ last.op = "flip"
    /\ last.res = "No card at that position"
    /\ last.notes = 0
    /\ Session(last.player).lastMismatch = <<>>
    /\ \E cell \in Cells : waiting[cell] # <<>>

(* ------------------------------- C15 ---------------------------------- *)

\* C15: when a player holding a first card calls flipCard on another
\* cell, one without card, the call fails with "No card at that
\* position"; the first cell has no controller any more and is still face
\* up with its card, the head of its queue is woken, the first card alone
\* is the player's pending mismatch and the player holds no card.
NoCardSecond ==
    [][\A player \in Players : \A cell \in Cells :
          ( /\ Holds(player)
            /\ cell # PosOf(Session(player).first[1])
            /\ cards[cell] = Null
            /\ Called(player, cell) )
          => LET fp == PosOf(Session(player).first[1]) IN
             /\ last'.res = "No card at that position"
             /\ control'[fp] = Null
             /\ faceUp'[fp]
             /\ cards'[fp] = cards[fp]
             /\ IF waiting[fp] = <<>>
                THEN waiting'[fp] = <<>> /\ ready' = ready
                ELSE /\ waiting'[fp] = Tail(waiting[fp])
                     /\ Len(ready') = Len(ready) + 1
                     /\ ready'[Len(ready')].player = Head(waiting[fp])
                     /\ ready'[Len(ready')].cell = fp
             /\ playerState'[player].lastMismatch = <<fp>>
             /\ playerState'[player].first = <<>>
             /\ playerState'[player].second = <<>>]_vars

(* ------------------------------- C16 ---------------------------------- *)

\* C16: when a player holding a first card calls flipCard on the position
\* of that card, the call returns normally and changes nothing: cards,
\* faces, controllers, every player's state (the caller still holds the
\* same first card), wait queues, woken flips and watchers are as before,
\* and no watcher is resolved.
DoubleClick ==
    [][\A player \in Players : \A cell \in Cells :
          ( /\ Holds(player)
            /\ cell = PosOf(Session(player).first[1])
            /\ Called(player, cell) )
          => /\ last'.res = "ok"
             /\ UNCHANGED <<cards, faceUp, control, playerState, waiting, ready, watchers>>
             /\ last'.woke = {}
             /\ last'.notes = 0]_vars

\* The player clicked its first card again while a watcher was
\* registered.
DoubleClickWitness ==
    /\ last.op = "flip"
    /\ last.res = "ok"
    /\ last.notes = 0
    /\ Holds(last.player)
    /\ last.cell = PosOf(Session(last.player).first[1])
    /\ watchers # <<>>

(* ------------------------------- C17 ---------------------------------- *)

\* The step is a run of flipCard: a call or the continuation of a woken
\* flip.
Flipped == last'.op \in {"flip", "resume"}

\* C17: when a run of flipCard turned a cell face up or face down or
\* removed a card, every watcher registered before it has been resolved
\* when the run returns, throws or suspends.
WatchersWoken ==
    [][(Flipped /\ (faceUp' # faceUp \/ cards' # cards))
          => /\ \A i \in 1 .. Len(watchers) : watchers[i] \in last'.woke
             /\ watchers' = <<>>]_vars

\* A flip removed a matched pair, resolved two watchers and then failed.
WatchersWokenWitness ==
    /\ last.op = "flip"
    /\ last.res = "No card at that position"
    /\ last.woke = Observers
    /\ \E cell \in Cells : cards[cell] = Null

(* ------------------------------- C18 ---------------------------------- *)

\* C18: a run of flipCard resolves watchers only when it changed the card
\* or the face of some cell; a run that only changed controllers (taking,
\* losing or releasing a card that was already face up) resolves no
\* watcher.
ControlOnlyQuiet ==
    [][(Flipped /\ last'.woke # {})
          => (faceUp' # faceUp \/ cards' # cards)]_vars

(* ------------------------------- C19 ---------------------------------- *)

\* The watchers registered, as a set.
Watching == {watchers[i] : i \in 1 .. Len(watchers)}

\* C19: a step that calls notifyWatchers resolves exactly the watchers
\* registered before it and leaves none registered; a watcher is
\* registered once, and a call of watch made after a notification stays
\* registered, unresolved, until a later step notifies.
SnapshotThenClear ==
    [][/\ last'.notes > 0 => (last'.woke = Watching /\ watchers' = <<>>)
       /\ last'.notes = 0 =>
             /\ last'.woke = {}
             /\ IF last'.op = "watch"
                THEN watchers' = Append(watchers, last'.player)
                ELSE watchers' = watchers
       /\ \A i, j \in 1 .. Len(watchers') : watchers'[i] = watchers'[j] => i = j]_vars

\* A second card was flipped with two watchers registered: the first
\* notifyWatchers of the call resolved both, the second found none.
SnapshotThenClearWitness ==
    /\ last.op = "flip"
    /\ last.res = "ok"
    /\ last.notes = 2
    /\ last.woke = Observers
    /\ watchers = <<>>

(* ------------------------------- C20 ---------------------------------- *)

\* C20: mapCards returns only when every task it started has run, and
\* when it returns every watcher registered before has been resolved by
\* its final notifyWatchers.
MapReturns ==
    [][\A m \in MapIds :
          (last'.op = "mapped" /\ last'.player = m)
          => /\ maps[m].tasks = {}
             /\ last'.woke = Watching
             /\ watchers' = <<>>]_vars

(* ------------------------------- C21 ---------------------------------- *)

\* The step is part of a call of mapCards: the call, a task or the return.
Mapped == last'.op \in {"map", "task", "mapped"}

\* C21: when mapCards runs with nothing else in between, then at its
\* return every cell that had a card at the call holds f of that card and
\* every cell that had none still has none; and no step of mapCards
\* changes a face, a controller, a player's state, a wait queue or the
\* woken flips.
MapAlone ==
    [][/\ \A m \in MapIds :
            (last'.op = "map" /\ last'.player = m)
            => /\ \A cell \in Cells :
                     cards[cell] # Null <=>
                        \E t \in maps'[m].tasks : t.cell = cell /\ t.card = cards[cell]
               /\ maps'[m].done = {}
       /\ \A m \in MapIds :
            (last'.op = "mapped" /\ last'.player = m)
            => \A cell \in Cells :
                  IF \E t \in maps[m].done : t.cell = cell
                  THEN \E t \in maps[m].done :
                          t.cell = cell /\ cards'[cell] = ApplyFn(maps[m].f, t.card)
                  ELSE cards'[cell] = Null
       /\ Mapped => UNCHANGED <<faceUp, control, playerState, waiting, ready>>]_vars

\* mapCards returned on a board with a removed cell, a card face up and
\* a card changed by f.
MapAloneWitness ==
    /\ last.op = "mapped"
    /\ \E cell \in Cells : cards[cell] = Null
    /\ \E cell \in Cells : faceUp[cell]
    /\ cards[<<0, 2>>] = "A"

(* ------------------------------- C22 ---------------------------------- *)

\* C22: mapCards and flipCard do not block each other.  No step of
\* mapCards joins or changes a wait queue; once all its tasks have run,
\* mapCards can return, whatever flips are suspended; a run of flipCard
\* leaves the tasks of mapCards alone, and a call of flipCard made while
\* mapCards is running suspends only when the player holds no card and
\* the cell is face up and controlled by another player.
MapNeverBlocks ==
    [][/\ Mapped => UNCHANGED <<waiting, ready>>
       /\ \A m \in MapIds :
            (maps[m].active /\ maps[m].tasks = {} /\ CallAllowed)
            => ENABLED ((MapDone(m) \/ MapDoneSecondCopy(m)) /\ UNCHANGED steps)
       /\ Flipped => maps' = maps
       /\ \A player \in Players : \A cell \in Cells :
            (Mapping /\ Called(player, cell) /\ last'.res = "suspended")
            => /\ ~Holds(player)
               /\ faceUp[cell]
               /\ control[cell] \notin {Null, player}]_vars

\* mapCards returned while a flip was suspended in a wait queue.
MapNeverBlocksWitness ==
    /\ last.op = "mapped"
    /\ \E cell \in Cells : waiting[cell] # <<>>
    /\ \E cell \in Cells : cards[cell] # (IF cell[2] < 2 THEN "A" ELSE "B")

(* ------------------------------- C23 ---------------------------------- *)

\* C23: rules 3A/3B are idempotent.  A call of flipCard by a player
\* holding no card leaves the player without pending match or mismatch,
\* so its next call has nothing to clean up; and a call by a player
\* holding no card and with nothing pending changes no card and no cell
\* but its target, and calls notifyWatchers at most once, for the card it
\* turns up.
CleanupIdempotent ==
    [][\A player \in Players : \A cell \in Cells :
          (Called(player, cell) /\ ~Holds(player))
          => /\ playerState'[player].lastMatch = <<>>
             /\ playerState'[player].lastMismatch = <<>>
             /\ Pending(player) = {}
                   => /\ cards' = cards
                      /\ \A c \in Cells \ {cell} :
                            /\ faceUp'[c] = faceUp[c]
                            /\ control'[c] = control[c]
                            /\ waiting'[c] = waiting[c]
                      /\ ready' = ready
                      /\ last'.notes <= 1
                      /\ last'.notes = 1 => last'.res = "ok"]_vars

\* The only player removed its pair with one call and took a first card
\* with the next, which had nothing left to clean up.
CleanupIdempotentWitness ==
    /\ last.op = "flip"
    /\ last.res = "ok"
    /\ last.notes = 1
    /\ DOMAIN playerState = {last.player}
    /\ Holds(last.player)
    /\ \E cell \in Cells : cards[cell] = Null

(* ------------------------------- C24 ---------------------------------- *)

\* The line the display is to show for a cell, by the state of the cell.
ShownAs(player, cell) ==
    CASE cards[cell] = Null -> "none\n"
      [] cards[cell] # Null /\ ~faceUp[cell] -> "down\n"
      [] cards[cell] # Null /\ faceUp[cell] /\ control[cell] = player
            -> "my " \o cards[cell] \o "\n"
      [] cards[cell] # Null /\ faceUp[cell] /\ control[cell] # player
            -> "up " \o cards[cell] \o "\n"

RECURSIVE ShownFrom(_, _)
\* The lines of the cells from the k-th on, in row-major order.
ShownFrom(player, k) ==
    IF k >= rows * cols THEN ""
    ELSE ShownAs(player, <<k \div cols, k % cols>>) \o ShownFrom(player, k + 1)

\* C24: the display of the board for a player is the header
\* "<rows>x<cols>" followed by one line per cell in row-major order:
\* "none" for a cell without card, "down" for a card face down,
\* "my <card>" for a card face up that the player controls and
\* "up <card>" for a card face up that another player or nobody controls.
DisplayLines ==
    \A player \in Viewers :
        ToDisplayString(player) =
            ToString(rows) \o "x" \o ToString(cols) \o "\n" \o ShownFrom(player, 0)

\* A board displayed with removed cards, a card of the viewer and a card
\* of another player.
DisplayLinesWitness ==
    /\ ToDisplayString("p1") = "2x2\nnone\nnone\nmy B\nup B\n"
    /\ ToDisplayString("p3") = "2x2\nnone\nnone\nup B\nup B\n"

(* ------------------------------- C25 ---------------------------------- *)

\* C25: a player never holds more than two cards: in every state each
\* player is the controller of at most two cells.
AtMostTwo ==
    \A player \in Players : Cardinality(Controlled(player)) <= 2

(* ------------------------------- C26 ---------------------------------- *)

\* C26: a step after which a cell has lost its controller (rules 2A and
\* 2B, a mismatch, the removal of a match) takes exactly one flip from
\* the cell's queue when it is not empty, the one at its head, and wakes
\* it; the cell of a flip just woken has no controller: the step does not
\* hand the cell to the woken player.
ReleaseWakesHead ==
    [][/\ \A cell \in Cells :
            (control[cell] # Null /\ control'[cell] = Null)
            => IF waiting[cell] = <<>>
               THEN waiting'[cell] = <<>> /\ ~WokenFrom(cell)
               ELSE /\ waiting'[cell] = Tail(waiting[cell])
                    /\ \E i \in 1 .. Len(Woken) :
                          /\ Woken[i].cell = cell
                          /\ Woken[i].player = Head(waiting[cell])
                          /\ \A j \in 1 .. Len(Woken) : Woken[j].cell = cell => j = i
       /\ \A i \in 1 .. Len(Woken) : control'[Woken[i].cell] = Null]_vars

\* Rule 2A released a first card and woke the flip waiting for it, while
\* a second flip stays in the queue.
ReleaseWakesHeadWitness ==
    /\ last.op = "flip"
    /\ last.res = "No card at that position"
    /\ ready # <<>>
    /\ LET w == ready[Len(ready)] IN
       /\ Session(last.player).lastMismatch = <<w.cell>>
       /\ control[w.cell] = Null
       /\ faceUp[w.cell]
       /\ waiting[w.cell] # <<>>

(* ------------------------------- C27 ---------------------------------- *)

\* C27: when a call of flipCard by a player holding a first card turns
\* up a second card, the pair becomes the player's pending match exactly
\* when the card the first cell holds at that moment equals the card the
\* second cell holds, also when mapCards wrote new cards in between; and
\* otherwise it becomes the pending mismatch.
MatchByContent ==
    [][\A player \in Players : \A cell \in Cells :
          ( /\ Holds(player)
            /\ cell # PosOf(Session(player).first[1])
            /\ cards[cell] # Null
            /\ control[cell] \in {Null, player}
            /\ Called(player, cell) )
          => LET fp == PosOf(Session(player).first[1]) IN
             IF cards[fp] = cards[cell]
             THEN playerState'[player].lastMatch = <<fp, cell>>
             ELSE /\ playerState'[player].lastMatch # <<fp, cell>>
                  /\ playerState'[player].lastMismatch = <<fp, cell>>]_vars

(* ------------------------------- C28 ---------------------------------- *)

\* C28: a woken flip that finds its cell with a card and without
\* controller takes it as the first card of its player: afterwards the
\* cell is face up and controlled by the player, and the card recorded is
\* the one the cell holds when the flip resumes.
WokenTakesFirst ==
    [][( /\ last'.op = "resume"
         /\ cards[last'.cell] # Null
         /\ control[last'.cell] = Null )
          => /\ last'.res = "ok"
             /\ faceUp'[last'.cell]
             /\ control'[last'.cell] = last'.player
             /\ playerState'[last'.player].first
                   = <<Pick(last'.cell, cards[last'.cell])>>]_vars

(* ------------------------------- C29 ---------------------------------- *)

\* C29: a call of flipCard by a player holding no card, on a cell that
\* has a card and no controller, returns normally without suspending,
\* whether the card is face down or was left face up by a mismatch:
\* afterwards the cell is face up, controlled by the caller and recorded
\* as the caller's first card.
FirstTakesFree ==
    [][\A player \in Players : \A cell \in Cells :
          ( /\ ~Holds(player)
            /\ cards[cell] # Null
            /\ control[cell] = Null
            /\ Called(player, cell) )
          => /\ last'.res = "ok"
             /\ faceUp'[cell]
             /\ control'[cell] = player
             /\ playerState'[player].first = <<Pick(cell, cards[cell])>>]_vars

(* ------------------------------- C30 ---------------------------------- *)

\* C30: a call of flipCard never fails with "Card controlled by another
\* player" in the run that starts it; only the continuation of a woken
\* flip raises that error, for a player holding no card, when the cell
\* has a controller again that is not the player.
DefensiveCheck ==
    [][last'.res = "Card controlled by another player"
          => /\ last'.op = "resume"
             /\ ~Holds(last'.player)
             /\ cards[last'.cell] # Null
             /\ control[last'.cell] \notin {Null, last'.player}
             /\ UNCHANGED <<cards, faceUp, control, playerState, waiting, watchers>>]_vars

\* A woken flip was refused: before it ran, another player took the cell
\* as its first card.
DefensiveCheckWitness ==
    /\ last.op = "resume"
    /\ last.res = "Card controlled by another player"
    /\ \E player \in Players \ {last.player} :
          /\ control[last.cell] = player
          /\ Session(player).first = <<Pick(last.cell, cards[last.cell])>>

(* ------------------------------- C31 ---------------------------------- *)

\* C31: a woken flip that fails with "Card controlled by another player"
\* corrupts nothing: the cell keeps its controller and stays face up, the
\* player records no card and holds none, the flip does not join a queue
\* again, and afterwards the cell invariants hold.
RefusedCleanly ==
    [][( /\ last'.op = "resume"
         /\ last'.res = "Card controlled by another player" )
          => LET player == last'.player
                 cell == last'.cell
             IN  /\ control'[cell] = control[cell]
                 /\ control'[cell] \notin {Null, player}
                 /\ faceUp'[cell]
                 /\ cards'[cell] = cards[cell]
                 /\ playerState'[player].first = <<>>
                 /\ playerState'[player].second = <<>>
                 /\ waiting' = waiting
                 /\ ready' = Tail(ready)
                 /\ \A c \in Cells :
                       /\ cards'[c] = Null => ~faceUp'[c] /\ control'[c] = Null
                       /\ control'[c] # Null => cards'[c] # Null /\ faceUp'[c]]_vars

\* A woken flip of a player with an empty turn state was refused and is
\* in no queue.
RefusedCleanlyWitness ==
    /\ last.op = "resume"
    /\ last.res = "Card controlled by another player"
    /\ Session(last.player) = EmptyState
    /\ ~InFlight(last.player)
    /\ faceUp[last.cell]

(* ------------------------------- C32 ---------------------------------- *)

\* C32: checkRep, run at the start of every call of flipCard, throws for
\* every board that breaks one of the three cell invariants (also for a
\* card that has a controller and is face down) and passes for every
\* board that satisfies them.
RepChecked ==
    [][\A player \in Players : \A cell \in Cells :
          Called(player, cell)
          => (last'.res = "checkRep failed" <=> ~CellInvariants)]_vars

(* ------------------------------- C33 ---------------------------------- *)

\* C33: the cell of a player's first card has a card, is face up and is
\* controlled by that player; and the cells of a player's pending match
\* have a card, are face up and are controlled by that player, as long
\* as the match is pending.
PicksControlled ==
    \A player \in Players :
        LET state == Session(player) IN
        /\ state.first # <<>> =>
              LET fp == PosOf(state.first[1]) IN
              cards[fp] # Null /\ faceUp[fp] /\ control[fp] = player
        /\ \A i \in 1 .. Len(state.lastMatch) :
              LET pos == state.lastMatch[i] IN
              cards[pos] # Null /\ faceUp[pos] /\ control[pos] = player

(* ------------------------------- C34 ---------------------------------- *)

\* C34: no run of flipCard fails with "Player cannot flip a third card
\* without completing a pair": between operations no player's state has
\* a second card, as it is set and cleared within one run.
NoThirdCard ==
    /\ last.res # "Player cannot flip a third card without completing a pair"
    /\ \A player \in Players : Session(player).second = <<>>

\* A woken flip ran as second card of its player and recorded a match.
NoThirdCardWitness ==
    /\ last.op = "resume"
    /\ last.res = "ok"
    /\ last.notes = 2
    /\ Len(Session(last.player).lastMatch) = 2
    /\ Session(last.player).lastMatch[2] = last.cell

(* ------------------------------- C35 ---------------------------------- *)

\* C35: between operations the state of a player has one of four shapes:
\* no card and nothing pending; a first card and nothing pending; no card
\* and a pending match of two different cells; no card and a pending
\* mismatch of one or two cells.  It never has a pending match together
\* with a pending mismatch, nor a card together with anything pending.
SessionShapes ==
    \A player \in Players :
        LET state == Session(player)
            idle == state.first = <<>> /\ state.second = <<>>
        IN  \/ idle /\ state.lastMatch = <<>> /\ state.lastMismatch = <<>>
            \/ /\ state.first # <<>> /\ state.second = <<>>
               /\ state.lastMatch = <<>> /\ state.lastMismatch = <<>>
            \/ /\ idle /\ state.lastMismatch = <<>>
               /\ Len(state.lastMatch) = 2
               /\ state.lastMatch[1] # state.lastMatch[2]
            \/ /\ idle /\ state.lastMatch = <<>>
               /\ Len(state.lastMismatch) \in {1, 2}

(* ------------------------------- C36 ---------------------------------- *)

\* The step turned the cell face down or removed its card.
Hidden(cell) ==
    \/ faceUp[cell] /\ ~faceUp'[cell]
    \/ cards[cell] # Null /\ cards'[cell] = Null

\* The cell is the first card the player holds, or in its pending match.
Claimed(player, cell) ==
    LET state == Session(player) IN
    \/ state.first # <<>> /\ PosOf(state.first[1]) = cell
    \/ \E i \in 1 .. Len(state.lastMatch) : state.lastMatch[i] = cell

\* C36: a run of flipCard by a player turns face down or removes only
\* cells of that player's pending match or pending mismatch, and never a
\* cell that is the first card another player holds or that is in
\* another player's pending match.
OwnCleanupOnly ==
    [][Flipped =>
          \A cell \in Cells :
              Hidden(cell) =>
                  /\ cell \in Pending(last'.player)
                  /\ \A other \in Players \ {last'.player} :
                        ~Claimed(other, cell)]_vars

(* ------------------------------- C37 ---------------------------------- *)

\* The cells without card.
Removed == {cell \in Cells : cards[cell] = Null}

\* C37: a step removes cards only as rule 3A of a call of flipCard, and
\* then the two different cells of the caller's pending match, both at
\* once; so the number of cells without card is even after every step.
RemovedInPairs ==
    /\ Cardinality(Removed) % 2 = 0
    /\ [][Removed' # Removed =>
            LET pend == Session(last'.player).lastMatch IN
            /\ last'.op = "flip"
            /\ Len(pend) = 2
            /\ pend[1] # pend[2]
            /\ Removed' = Removed \cup {pend[1], pend[2]}
            /\ Cardinality(Removed') = Cardinality(Removed) + 2]_vars

(* ------------------------------- C38 ---------------------------------- *)

\* C38: a flip that suspended in rule 1-D runs as a first card when it
\* resumes, whatever other flips its player called meanwhile: it either
\* fails as a first card does, leaving the player without card, or takes
\* the cell as the player's first card; it is never the player's second
\* card, and it leaves a pending match of the player as it is.
WokenIsFirstPick ==
    [][last'.op = "resume" =>
          LET player == last'.player
              cell == last'.cell
              state == Session(player)
              after == playerState'[player]
          IN  /\ ~Holds(player)
              /\ \/ /\ last'.res \in {"No card at that position",
                                       "Card controlled by another player"}
                    /\ after.first = <<>>
                 \/ /\ last'.res = "ok"
                    /\ after.first = <<Pick(cell, cards[cell])>>
                    /\ control'[cell] = player
              /\ after.second = <<>>
              /\ state.lastMatch # <<>> => after.lastMatch = state.lastMatch]_vars

(* ------------------------------- C7 ----------------------------------- *)

\* C7: while players keep flipping and woken flips run, the flip at the
\* head of every non-empty wait queue is eventually woken, so every
\* suspended flip eventually resumes, also when the cell it waits for was
\* removed.
NoStarvation ==
    \A cell \in (0 .. 0) \X (0 .. 2) :
        (cell \in Cells /\ waiting[cell] # <<>>)
            ~> (\E i \in 1 .. Len(ready) : ready[i].cell = cell)

====
